---- MODULE Spec2Model ----
(***************************************************************************)
(* Telegram + Paystack voucher bot (src/app.py).                           *)
(*                                                                         *)
(* State: the two tables of botdata.db (vouchers, users), the in-memory    *)
(* conversation map CONV, the webhook requests in flight (Flask serves     *)
(* each request on its own thread, each with its own sqlite connection),   *)
(* and the messages handed to Telegram.                                    *)
(***************************************************************************)
EXTENDS Integers, Sequences, FiniteSets, Bags, TLC

\* ---- bounds ----
MaxCodes == 2
MaxReq == 2
MaxDeliveries == 2
MaxChat == 2
MaxUpdates == 4

\* ---- values ----
\* JSON / Python values as tagged tuples: None, an int, a str.
JNull == <<"null">>
JInt(n) == <<"int", n>>
JStr(s) == <<"str", s>>

\* Python truthiness of a value (used by `if not x`, `x or y`, `if x`).
Truthy(v) == /\ v # JNull
             /\ v # JInt(0)
             /\ v # JStr("")

CodeNames == <<"DL-1", "DL-2", "DL-3", "DL-4">>
Codes == {CodeNames[i] : i \in 1..MaxCodes}
Reqs == 1..MaxReq
Chats == 1..MaxChat

\* u.message.from_user of the private chat with each id; a user without a
\* last name has last_name None, which the loop turns into "".
FirstNames == <<"Ann", "Bo", "Cy", "Di">>
LastNames == <<"Lee", "", "Ray", "">>

PLANS == ("Daily" :> 500) @@ ("Weekly" :> 2500) @@ ("Bi-weekly" :> 5500) @@ ("Monthly" :> 8000)

PAYSTACK_SECRET_KEY == "sk_secret"
OtherKey == "sk_forged"

\* int(v) for a truthy metadata value; a string that is no decimal number
\* raises ValueError.
DecimalValue == ("0" :> 0) @@ ("1" :> 1) @@ ("2" :> 2)
IntOf(v) == IF v[1] = "int" THEN v
            ELSE IF v[2] \in DOMAIN DecimalValue THEN JInt(DecimalValue[v[2]])
            ELSE <<"ValueError">>

\* chat_id = int(metadata.get("chat_id")) if metadata.get("chat_id") else None,
\* with any exception turned into None.
ParseChatId(v) == IF ~Truthy(v) THEN JNull
                  ELSE IF IntOf(v) = <<"ValueError">> THEN JNull
                  ELSE IntOf(v)

\* ---- inputs of the webhook ----
\* Plan names that occur in stored vouchers and in event metadata: two
\* configured plans and one that is not configured.
PlanInputs == {"Daily", "Weekly", "Gold"}

\* Request bodies.  kind: "garbage" is not JSON, "falsy" is JSON that Python
\* treats as false ({} [] 0 ""), "scalar" is JSON that is true but no object
\* ([1], "x", 7), "object" is a JSON object with the fields the handler reads.
\* meta: data.metadata is an object holding chat_id and plan ("dict"; when
\* both are null it may as well be absent, null, 0 or ""), or it is a
\* non-empty string, as Paystack passes on metadata that was sent as text.
ObjectBodies == [kind : {"object"},
                 meta : {"dict", "string"},
                 reference : {"T1", "T2"},
                 event : {"charge.success", "charge.failed"},
                 status : {"success", "failed"},
                 chat_id : {JNull, JInt(0), JInt(1), JStr("2"), JStr("x")},
                 plan : {JNull} \cup {JStr(p) : p \in PlanInputs}]
\* The event a paying buyer causes, and one-field variations of it.
PaidBody == [kind |-> "object", meta |-> "dict", reference |-> "T1", event |-> "charge.success",
             status |-> "success", chat_id |-> JInt(1), plan |-> JStr("Daily")]
ObjectInputs == {b \in ObjectBodies :
                    \/ /\ b.reference = PaidBody.reference
                       /\ b.meta = PaidBody.meta
                       /\ b.event = PaidBody.event
                       /\ b.status = PaidBody.status
                       /\ Truthy(ParseChatId(b.chat_id))
                       /\ Truthy(b.plan)
                    \/ Cardinality({f \in DOMAIN PaidBody : b[f] # PaidBody[f]}) = 1}
OtherBody(k) == [kind |-> k, meta |-> "dict", reference |-> "", event |-> "", status |-> "", chat_id |-> JNull, plan |-> JNull]
Bodies == ObjectInputs \cup {OtherBody(k) : k \in {"garbage", "falsy", "scalar"}}

\* hmac.new(key, raw_body, sha512).hexdigest(): a hex string determined by
\* the key and the bytes of the body, distinct for distinct (key, body).
HmacSha512Hex(key, raw_body) == <<"hex", key, raw_body>>
NonAsciiHeader == <<"str", "non-ascii">>

\* A body other than b, whose signature a replaying sender might attach.
Tampered(b) == IF b = OtherBody("garbage") THEN OtherBody("falsy") ELSE OtherBody("garbage")

\* Values of the X-Paystack-Signature header that accompany body b: the
\* provider's signature for every body, and for some bodies no header, an
\* empty one, one that is not ASCII, one made with another key and the
\* signature of another body.
BadHeaders(b) == {JNull, JStr(""), NonAsciiHeader,
                  HmacSha512Hex(OtherKey, b),
                  HmacSha512Hex(PAYSTACK_SECRET_KEY, Tampered(b))}
Headers(b) == {HmacSha512Hex(PAYSTACK_SECRET_KEY, b)}
              \cup (IF b.plan \in {JNull, JStr("Daily")} THEN BadHeaders(b) ELSE {})

\* ---- state ----
\* vouchers, users: the tables of botdata.db.  CONV: chat_id -> state dict.
\* req: the webhook requests in flight.  sent: the voucher notifications
\* Telegram accepted.  prompt: the last message of the polling loop each chat
\* received.  offset: updates consumed.  pollError: the last update ended in
\* "Polling error".  deliveries: webhook requests received.  claimLog: every
\* code assign_voucher_for_plan returned, with the event it was returned for.
\* loaded: whether load_vouchers_into_db was called, and with which file.
\* paystackCalls: the requests posted to the Paystack API.  replaced: the
\* chats whose users row the REPLACE of an INSERT OR REPLACE has deleted.
VARIABLES vouchers, users, CONV, req, deliveries, sent, claimLog, offset, prompt, pollError, loaded, paystackCalls, replaced

vars == <<vouchers, users, CONV, req, deliveries, sent, claimLog, offset, prompt, pollError, loaded, paystackCalls, replaced>>
webVars == <<vouchers, req, deliveries, sent, claimLog>>
chatVars == <<users, CONV, offset, prompt, pollError, loaded, paystackCalls, replaced>>

\* A variant that hashes the body without the secret key.
verify_paystack_signature_unkeyed(raw_body, header_signature) ==
    IF ~Truthy(header_signature) THEN "False"
    ELSE IF header_signature = NonAsciiHeader THEN "TypeError"
    ELSE IF header_signature[3] = raw_body THEN "True"
    ELSE "False"

verify_paystack_signature(raw_body, header_signature) ==
    IF ~Truthy(header_signature) THEN "False"
    ELSE IF header_signature = NonAsciiHeader THEN "TypeError"
    ELSE IF HmacSha512Hex(PAYSTACK_SECRET_KEY, raw_body) = header_signature THEN "True"
    ELSE "False"

\* request.get_json(silent=True): None when the body is not JSON.
GetJson(b) == IF b.kind = "garbage" THEN JNull
              ELSE IF b.kind = "falsy" THEN JInt(0)
              ELSE <<"json", b>>

Response(http, status, message, note) == [http |-> http, status |-> status, message |-> message, note |-> note]
NoResponse == Response(0, "", "", "")

\* A request in flight: where its thread stands and the handler's locals;
\* signed and json record what was received: whether the header is the
\* provider's signature of the body, and whether the body is JSON.
IdleReq == [pc |-> "idle", signed |-> FALSE, json |-> FALSE, reference |-> "",
            chat_id |-> JNull, plan |-> JNull, code |-> JNull,
            notified |-> "no", resp |-> NoResponse]

\* The handler from its entry to the call of assign_voucher_for_plan or to
\* its early return: the request record after these lines.
WebhookEntry(h, b) ==
    LET done(resp) == [IdleReq EXCEPT !.pc = "done", !.resp = resp]
        chat_id == ParseChatId(b.chat_id)
    IN  IF verify_paystack_signature(b, h) = "TypeError"
            THEN done(Response(500, "error", "Internal Server Error", ""))
        ELSE IF verify_paystack_signature(b, h) = "False"
            THEN done(Response(400, "error", "Invalid signature", ""))
        ELSE IF ~Truthy(GetJson(b))
            THEN done(Response(400, "error", "Invalid payload", ""))
        ELSE IF b.kind = "scalar"
            THEN done(Response(500, "error", "Internal Server Error", ""))
        ELSE IF /\ (b.event = "charge.success" \/ b.status = "success")
                /\ b.meta = "string"
            THEN done(Response(500, "error", "Internal Server Error", ""))
        ELSE IF /\ (b.event = "charge.success" \/ b.status = "success")
                /\ Truthy(chat_id)
                /\ Truthy(b.plan)
            THEN [IdleReq EXCEPT !.pc = "select", !.reference = b.reference,
                                 !.chat_id = chat_id, !.plan = b.plan]
        ELSE done(Response(200, "ignored", "", ""))

\* A POST to /paystack/webhook with header h and body b arrives on thread r
\* and is handled up to the voucher claim.
WebhookPost(r, h, b) ==
    /\ req[r].pc = "idle"
    /\ deliveries < MaxDeliveries
    /\ req' = [req EXCEPT ![r] = [WebhookEntry(h, b) EXCEPT
                                     !.signed = (h = HmacSha512Hex(PAYSTACK_SECRET_KEY, b)),
                                     !.json = (b.kind # "garbage")]]
    /\ deliveries' = deliveries + 1
    /\ UNCHANGED <<vouchers, sent, claimLog, chatVars>>

WebhookReceive(r) == \E b \in Bodies : \E h \in Headers(b) : WebhookPost(r, h, b)

\* A variant that selects among the unused rows of every plan.
UnusedRows_anyplan(plan) == {v \in vouchers : v.used = 0}

\* SELECT code FROM vouchers WHERE plan=? AND used=0 LIMIT 1
UnusedRows(plan) == {v \in vouchers : v.plan = plan[2] /\ v.used = 0}

\* A variant that takes the claimed row out of the table.
MarkUsed_delete(code) == {v \in vouchers : v.code # code}

\* UPDATE vouchers SET used=1 WHERE code=?
MarkUsed(code) == {IF v.code = code THEN [v EXCEPT !.used = 1] ELSE v : v \in vouchers}

\* assign_voucher_for_plan, first half: the SELECT and the test of its row.
AssignSelect(r) ==
    /\ req[r].pc = "select"
    /\ IF UnusedRows(req[r].plan) = {}
          THEN req' = [req EXCEPT ![r].pc = "send", ![r].code = JNull]
          ELSE \E row \in UnusedRows(req[r].plan) :
                  req' = [req EXCEPT ![r].pc = "update", ![r].code = JStr(row.code)]
    /\ UNCHANGED <<vouchers, deliveries, sent, claimLog, chatVars>>

\* assign_voucher_for_plan, second half: the UPDATE, the commit, return code.
AssignUpdate(r) ==
    /\ req[r].pc = "update"
    /\ vouchers' = MarkUsed(req[r].code[2])
    /\ claimLog' = claimLog (+) SetToBag({[reference |-> req[r].reference, chat_id |-> req[r].chat_id[2], plan |-> req[r].plan[2], code |-> req[r].code[2]]})
    /\ req' = [req EXCEPT ![r].pc = "send"]
    /\ UNCHANGED <<deliveries, sent, chatVars>>

\* The text the webhook sends after the claim.
VoucherMessage(chat_id, plan, code) ==
    IF Truthy(code)
        THEN [chat_id |-> chat_id[2], text |-> <<"Payment confirmed", plan[2], code[2]>>]
        ELSE [chat_id |-> chat_id[2], text |-> <<"Payment received, no voucher", plan[2]>>]

\* send_message: bot.send_message either delivers or raises; the exception
\* is printed and swallowed.
SendMessage(outbox, msg, ok) == IF ok THEN outbox (+) SetToBag({msg}) ELSE outbox

\* A variant in which a failed send is not caught: the exception leaves the
\* handler and the request ends in an error response.
WebhookNotify_uncaught(r) ==
    /\ req[r].pc = "send"
    /\ \E ok \in BOOLEAN :
          /\ sent' = SendMessage(sent, VoucherMessage(req[r].chat_id, req[r].plan, req[r].code), ok)
          /\ req' = [req EXCEPT ![r].pc = "done",
                                ![r].notified = IF ok THEN "yes" ELSE "failed",
                                ![r].resp = IF ~ok THEN Response(500, "error", "Internal Server Error", "")
                                            ELSE IF Truthy(req[r].code)
                                               THEN Response(200, "ok", "", "")
                                               ELSE Response(200, "ok", "", "no voucher")]
    /\ UNCHANGED <<vouchers, deliveries, claimLog, chatVars>>

\* The handler after the claim: notify the buyer and answer 200.
WebhookNotify(r) ==
    /\ req[r].pc = "send"
    /\ \E ok \in BOOLEAN :
          /\ sent' = SendMessage(sent, VoucherMessage(req[r].chat_id, req[r].plan, req[r].code), ok)
          /\ req' = [req EXCEPT ![r].pc = "done",
                                ![r].notified = IF ok THEN "yes" ELSE "failed",
                                ![r].resp = IF Truthy(req[r].code)
                                               THEN Response(200, "ok", "", "")
                                               ELSE Response(200, "ok", "", "no voucher")]
    /\ UNCHANGED <<vouchers, deliveries, claimLog, chatVars>>

\* The response has been written; the serving thread is free again.
WebhookReturn(r) ==
    /\ req[r].pc = "done"
    /\ req' = [req EXCEPT ![r] = IdleReq]
    /\ UNCHANGED <<vouchers, deliveries, sent, claimLog, chatVars>>

\* ---- the chat side: start_polling ----
\* Message texts after .strip(); "" is a message without text.
Texts == {"/start", "a@x.io", "@", "Daily", "Weekly", "daily", "Help", ""}

\* The characters of each text.
Chars(t) == CASE t = "/start" -> {"/", "s", "t", "a", "r"}
              [] t = "a@x.io" -> {"a", "@", "x", ".", "i", "o"}
              [] t = "@" -> {"@"}
              [] t = "Daily" -> {"D", "a", "i", "l", "y"}
              [] t = "Weekly" -> {"W", "e", "k", "l", "y"}
              [] t = "daily" -> {"d", "a", "i", "l", "y"}
              [] t = "Help" -> {"H", "e", "l", "p"}
              [] OTHER -> {}

\* text.lower()
Lower(t) == CASE t = "Daily" -> "daily"
              [] t = "Weekly" -> "weekly"
              [] t = "Help" -> "help"
              [] t = "Bi-weekly" -> "bi-weekly"
              [] t = "Monthly" -> "monthly"
              [] OTHER -> t

\* Python dicts as functions on their keys.
DictGet(d, k, default) == IF k \in DOMAIN d THEN d[k] ELSE default
DictUpdate(d, e) == [k \in DOMAIN d \cup DOMAIN e |-> IF k \in DOMAIN e THEN e[k] ELSE d[k]]

NoRow == <<>>

\* What the two Paystack calls give back: create_paystack_customer an id,
\* None or an exception of requests; create_dedicated_account the account
\* data, None or an exception.
Raised == <<"raise">>
CustomerResults == {JStr("CUS_1"), JNull, Raised}
Account == <<"dict", "9900112233">>
DedicatedResults == {Account, JNull, Raised}

\* json.dumps(dedicated)
JsonDumps(d) == JStr(d[2])

\* A variant that binds the email and the plan to each other's column.
UserRow_swapped(first_name, last_name, email, plan, customer_id, dedicated) ==
    [first_name |-> first_name, last_name |-> last_name, email |-> plan, plan |-> email,
     customer_id |-> customer_id,
     dedicated_account |-> IF Truthy(dedicated) THEN JsonDumps(dedicated) ELSE JNull]

\* The row of the INSERT OR REPLACE INTO users.
UserRow(first_name, last_name, email, plan, customer_id, dedicated) ==
    [first_name |-> first_name, last_name |-> last_name, email |-> email, plan |-> plan,
     customer_id |-> customer_id,
     dedicated_account |-> IF Truthy(dedicated) THEN JsonDumps(dedicated) ELSE JNull]

\* A variant that updates the old dict in place.
StartSession_update(old, first, last) ==
    DictUpdate(old, [step |-> "awaiting_email", first_name |-> first, last_name |-> last])

\* CONV[chat_id] after "/start": a new dict, whatever the old one held.
StartSession(old, first, last) == [step |-> "awaiting_email", first_name |-> first, last_name |-> last]

\* if "@" not in text
ValidEmail_nonempty(text) == text # ""

ValidEmail(text) == "@" \in Chars(text)

\* if text not in PLANS
ValidPlan_anycase(text) == Lower(text) \in {Lower(p) : p \in DOMAIN PLANS}

ValidPlan(text) == text \in DOMAIN PLANS

\* INSERT OR REPLACE INTO users, chat_id being the primary key.
InsertOrReplace_ignore(table, c, row) == IF table[c] = NoRow THEN [table EXCEPT ![c] = row] ELSE table

InsertOrReplace(table, c, row) == [table EXCEPT ![c] = row]

\* The Paystack requests of lines 255-258: the customer, and the dedicated
\* account if a customer id came back.
CallsMade(customer) == IF Truthy(customer) /\ customer # Raised THEN 2 ELSE 1

\* One message sent to a chat by the polling loop; a failed send is lost.
Reply(c, text, ok) == IF ok THEN [prompt EXCEPT ![c] = text] ELSE prompt

\* One update of chat c with the given text is taken from get_updates and
\* handled; customer and dedicated are the results of the Paystack calls if
\* the handler makes them, ok is whether Telegram accepts the reply.
HandleUpdate(c, text, customer, dedicated, ok) ==
    LET first == FirstNames[c]
        last == LastNames[c]
        state == IF CONV[c] = NoRow THEN [step |-> "idle"] ELSE CONV[c]
        step == DictGet(state, "step", "idle")
    IN
    /\ offset < MaxUpdates
    /\ offset' = offset + 1
    /\ IF text = "/start" THEN
          /\ CONV' = [CONV EXCEPT ![c] = StartSession(CONV[c], first, last)]
          /\ prompt' = Reply(c, "Welcome! Please send your email address to proceed.", ok)
          /\ pollError' = FALSE
          /\ UNCHANGED <<users, paystackCalls, replaced>>
       ELSE IF step = "awaiting_email" THEN
          IF ~ValidEmail(text) THEN
             /\ prompt' = Reply(c, "That doesn't look like a valid email.", ok)
             /\ pollError' = FALSE
             /\ UNCHANGED <<CONV, users, paystackCalls, replaced>>
          ELSE
             /\ CONV' = [CONV EXCEPT ![c] = DictUpdate(CONV[c], [email |-> text, step |-> "awaiting_plan"])]
             /\ prompt' = Reply(c, "Choose a plan:", ok)
             /\ pollError' = FALSE
             /\ UNCHANGED <<users, paystackCalls, replaced>>
       ELSE IF step = "awaiting_plan" THEN
          IF ~ValidPlan(text) THEN
             /\ prompt' = Reply(c, "Please choose a plan from the keyboard.", ok)
             /\ pollError' = FALSE
             /\ UNCHANGED <<CONV, users, paystackCalls, replaced>>
          ELSE IF customer = Raised \/ (Truthy(customer) /\ dedicated = Raised) THEN
             \* the exception leaves the for loop; "Polling error" is printed
             /\ pollError' = TRUE
             /\ paystackCalls' = paystackCalls + CallsMade(customer)
             /\ UNCHANGED <<CONV, users, prompt, replaced>>
          ELSE
             LET email == DictGet(CONV[c], "email", "")
                 first_name == DictGet(CONV[c], "first_name", first)
                 last_name == DictGet(CONV[c], "last_name", last)
                 account == IF Truthy(customer) THEN dedicated ELSE JNull
             IN /\ paystackCalls' = paystackCalls + CallsMade(customer)
                /\ users' = InsertOrReplace(users, c, UserRow(first_name, last_name, email, text, customer, account))
                /\ replaced' = IF users[c] # NoRow THEN replaced \cup {c} ELSE replaced
                /\ prompt' = IF Truthy(account)
                                THEN Reply(c, "Please pay to the dedicated account", ok)
                                ELSE Reply(c, "Could not create a dedicated account.", ok)
                /\ CONV' = [CONV EXCEPT ![c] = DictUpdate(CONV[c], [step |-> "idle"])]
                /\ pollError' = FALSE
       ELSE
          /\ prompt' = IF Lower(text) \in {"help", "/help"}
                          THEN Reply(c, "Send /start to begin the purchase flow.", ok)
                          ELSE Reply(c, "Send /start to begin.", ok)
          /\ pollError' = FALSE
          /\ UNCHANGED <<CONV, users, paystackCalls, replaced>>
    /\ UNCHANGED <<webVars, loaded>>

PollUpdate(c) ==
    \E text \in Texts : \E customer \in CustomerResults : \E dedicated \in DedicatedResults : \E ok \in BOOLEAN :
        HandleUpdate(c, text, customer, dedicated, ok)

\* ---- startup: load_vouchers_into_db ----
\* vouchers.json as the (plan, code) pairs it lists, every code listed once.
Seeds == {seed \in SUBSET [plan : PlanInputs, code : Codes] :
             \A a, b \in seed : a.code = b.code => a = b}

\* The call made at startup, before any request is served.  The function's
\* first statement evaluates (VOUCHERS_FILE := VOUCHERS_FILE): the assignment
\* expression makes the name local to the function, so reading it raises
\* UnboundLocalError before the file is opened and nothing is inserted.
LoadVouchers(seed) ==
    /\ ~loaded.called
    /\ deliveries = 0
    /\ offset = 0
    /\ loaded' = [called |-> TRUE, seed |-> seed]
    /\ UNCHANGED <<webVars, users, CONV, offset, prompt, pollError, paystackCalls, replaced>>

\* ---- initial state ----
\* botdata.db survives restarts (CREATE TABLE IF NOT EXISTS): the vouchers
\* table starts with any set of unused rows with unique codes.
Inventories == {inv \in SUBSET [code : Codes, plan : PlanInputs, used : {0}] :
                   \A a, b \in inv : a.code = b.code => a = b}

\* The users table likewise: empty, or holding the row of a buyer who
\* completed the intake before the restart.
Ledgers == {[c \in Chats |-> IF c = 1 THEN row ELSE NoRow] :
               row \in {NoRow, UserRow(FirstNames[1], LastNames[1], "a@x.io", "Daily", JStr("CUS_1"), Account)}}

Init ==
    /\ vouchers \in Inventories
    /\ users \in Ledgers
    /\ CONV = [c \in Chats |-> NoRow]
    /\ req = [r \in Reqs |-> IdleReq]
    /\ deliveries = 0
    /\ sent = EmptyBag
    /\ claimLog = EmptyBag
    /\ offset = 0
    /\ prompt = [c \in Chats |-> ""]
    /\ pollError = FALSE
    /\ loaded = [called |-> FALSE, seed |-> {}]
    /\ paystackCalls = 0
    /\ replaced = {}

NextWebhook ==
    \/ \E r \in Reqs : WebhookReceive(r)
    \/ \E r \in Reqs : AssignSelect(r)
    \/ \E r \in Reqs : AssignUpdate(r)
    \/ \E r \in Reqs : WebhookNotify(r)
    \/ \E r \in Reqs : WebhookReturn(r)

NextChat == \E c \in Chats : PollUpdate(c)

NextStartup == \E seed \in Seeds : LoadVouchers(seed)

Next == NextStartup \/ NextWebhook \/ NextChat

Spec == Init /\ [][Next]_vars

\* The webhook threads alone, and the polling thread alone: the two touch
\* disjoint parts of the state.
SpecWebhook == Init /\ [][NextWebhook]_vars
InitChat == Init /\ vouchers = {}
SpecChat == InitChat /\ [][NextChat]_vars

\* Startup on a database with no buyer and at most one voucher, then the
\* webhook threads.
InitSeed == Init /\ Cardinality(vouchers) <= 1 /\ users = [c \in Chats |-> NoRow]
NextSeed == NextStartup \/ NextWebhook
SpecSeed == InitSeed /\ [][NextSeed]_vars

\* ---- properties ----
\* How often assign_voucher_for_plan returned a code to a claim selected by f.
ClaimCount(f(_)) == BagCardinality([e \in {x \in BagToSet(claimLog) : f(x)} |-> claimLog[e]])

\* C1: no code is returned by more than one claim over the whole run, for
\* any interleaving of concurrent webhook requests.
C1_NoCodeClaimedTwice ==
    \A code \in Codes : LET sameCode(e) == e.code = code IN ClaimCount(sameCode) <= 1

\* C2: all deliveries of one payment event (same reference, chat and plan)
\* together claim at most one voucher, so at most one voucher notification is
\* sent for it; later deliveries are no-ops.
C2_RedeliveryClaimsOnce ==
    \A e \in BagToSet(claimLog) :
        LET sameEvent(x) == x.reference = e.reference /\ x.chat_id = e.chat_id /\ x.plan = e.plan
        IN  ClaimCount(sameEvent) <= 1

\* C3: the webhook claims a voucher only for an event that identifies an
\* order persisted in the ledger; an event that matches no order is ignored.
C3_ClaimOnlyForPersistedOrder ==
    /\ \A e \in BagToSet(claimLog) : e.chat_id \in Chats /\ users[e.chat_id] # NoRow
    /\ \A r \in Reqs : (/\ req[r].pc = "done"
                        /\ req[r].resp.http = 200
                        /\ req[r].chat_id # JNull
                        /\ users[req[r].chat_id[2]] = NoRow) => req[r].resp.status = "ignored"

\* C4: after seeding N codes for plan P into an empty inventory, a claim for
\* P returns one of the seeded codes of P, and returns None only when N
\* claims for P have returned a code before.
C4_SeededCodesAreClaimable ==
    (loaded.called /\ vouchers = {}) =>
        \A r \in Reqs : req[r].pc = "send" =>
            LET P == req[r].plan[2]
                samePlan(e) == e.plan = P
            IN  IF Truthy(req[r].code)
                    THEN [plan |-> P, code |-> req[r].code[2]] \in loaded.seed
                    ELSE ClaimCount(samePlan) >= Cardinality({x \in loaded.seed : x.plan = P})

\* C5: a webhook request with a missing or wrong signature header or an
\* unparsable body is answered with an error before any voucher claim: it
\* never reaches the claim or the notification, which are the only steps of
\* a request that change vouchers or send messages.
C5_UnverifiableRejected ==
    \A r \in Reqs : (req[r].pc # "idle" /\ (~req[r].signed \/ ~req[r].json)) =>
        /\ req[r].pc = "done"
        /\ req[r].resp.http >= 400
        /\ req[r].resp.status = "error"
        /\ req[r].notified = "no"
        /\ req[r].code = JNull

C5_Witness ==
    \E r \in Reqs : /\ req[r].pc = "done"
                    /\ ~req[r].signed
                    /\ req[r].resp = Response(400, "error", "Invalid signature", "")

\* The creation of the payment-collection account failed.
AccountFailed(customer, dedicated) ==
    \/ customer = Raised
    \/ ~Truthy(customer)
    \/ dedicated = Raised
    \/ ~Truthy(dedicated)

\* C6: when a session at awaiting_plan sends a valid plan and the creation of
\* the collection account fails, no Order row is written or replaced for the
\* session.
C6_NoOrderWithoutAccount ==
    [][\A c \in Chats : \A text \in DOMAIN PLANS : \A customer \in CustomerResults : \A dedicated \in DedicatedResults : \A ok \in BOOLEAN :
          (/\ CONV[c] # NoRow
           /\ CONV[c].step = "awaiting_plan"
           /\ AccountFailed(customer, dedicated)
           /\ HandleUpdate(c, text, customer, dedicated, ok)) =>
              users'[c] = users[c]]_vars

\* C7: a payment event for a plan with no unused voucher leaves every voucher
\* as it is, records the order as voucher_exhausted and notifies the buyer
\* once that no code is available.
C7_ExhaustionRecorded ==
    \A r \in Reqs : (req[r].pc = "done" /\ req[r].resp.note = "no voucher") =>
        LET c == req[r].chat_id[2]
        IN  /\ c \in Chats
            /\ users[c] # NoRow
            /\ "status" \in DOMAIN users[c]
            /\ users[c].status = "voucher_exhausted"
            /\ req[r].notified = "yes"

\* C8: the voucher issued for a paid order comes from the pool of the plan
\* recorded in the order, whatever plan the event's metadata names.
C8_VoucherFromOrderPlan ==
    \A e \in BagToSet(claimLog) :
        (e.chat_id \in Chats /\ users[e.chat_id] # NoRow) =>
            \A v \in vouchers : v.code = e.code => v.plan = users[e.chat_id].plan

\* C9: when the notification fails after a voucher was claimed, the voucher
\* stays marked used and the webhook still answers with the success
\* acknowledgment.
C9_FailedNotifyKeepsClaim ==
    \A r \in Reqs : (req[r].pc = "done" /\ req[r].notified = "failed" /\ Truthy(req[r].code)) =>
        /\ \E v \in vouchers : v.code = req[r].code[2] /\ v.used = 1
        /\ req[r].resp = Response(200, "ok", "", "")

C9_Witness ==
    \E r \in Reqs : /\ req[r].pc = "done"
                    /\ req[r].notified = "failed"
                    /\ Truthy(req[r].code)
                    /\ sent = EmptyBag

\* C10: "/start" in any stage puts the session into the entry stage
\* awaiting_email and drops the fields collected before (email, plan); the
\* other sessions stay as they are.
C10_RestartResets ==
    [][\A c \in Chats : \A customer \in CustomerResults : \A dedicated \in DedicatedResults : \A ok \in BOOLEAN :
          HandleUpdate(c, "/start", customer, dedicated, ok) =>
              /\ CONV'[c].step = "awaiting_email"
              /\ DOMAIN CONV'[c] = {"step", "first_name", "last_name"}
              /\ \A d \in Chats \ {c} : CONV'[d] = CONV[d]]_vars

C10_Witness ==
    \E c \in Chats : /\ c # 1
                     /\ users[c] # NoRow
                     /\ CONV[c] # NoRow
                     /\ CONV[c].step = "awaiting_email"
                     /\ "email" \notin DOMAIN CONV[c]

\* C11: in stage awaiting_plan a message that is no configured plan name
\* (and not "/start") re-prompts the buyer and leaves the stage, the
\* collected fields and the ledger as they are; no request goes to Paystack.
C11_InvalidPlanReprompts ==
    [][\A c \in {d \in Chats : CONV[d] # NoRow /\ CONV[d].step = "awaiting_plan"} :
       \A text \in Texts \ (DOMAIN PLANS \cup {"/start"}) :
       \A customer \in CustomerResults : \A dedicated \in DedicatedResults : \A ok \in BOOLEAN :
          HandleUpdate(c, text, customer, dedicated, ok) =>
              /\ CONV' = CONV
              /\ users' = users
              /\ paystackCalls' = paystackCalls
              /\ prompt'[c] = IF ok THEN "Please choose a plan from the keyboard." ELSE prompt[c]]_vars

C11_Witness ==
    \E c \in Chats : /\ CONV[c] # NoRow
                     /\ CONV[c].step = "awaiting_plan"
                     /\ prompt[c] = "Please choose a plan from the keyboard."
                     /\ paystackCalls = 0

\* C12: in stage awaiting_email a message without "@" (and not "/start")
\* leaves the stage and the collected fields as they are; a message with "@"
\* is stored as the email and the stage becomes awaiting_plan; a session at
\* awaiting_plan always holds an email that contains "@".
C12_EmailGuard ==
    [][/\ \A c \in {d \in Chats : CONV[d] # NoRow /\ CONV[d].step = "awaiting_email"} :
          \A text \in Texts \ {"/start"} :
          \A customer \in CustomerResults : \A dedicated \in DedicatedResults : \A ok \in BOOLEAN :
             HandleUpdate(c, text, customer, dedicated, ok) =>
                 IF "@" \in Chars(text)
                    THEN /\ CONV'[c].step = "awaiting_plan"
                         /\ CONV'[c].email = text
                    ELSE CONV' = CONV
       /\ \A c \in Chats : (CONV'[c] # NoRow /\ CONV'[c].step = "awaiting_plan") =>
             /\ "email" \in DOMAIN CONV'[c]
             /\ "@" \in Chars(CONV'[c].email)]_vars

C12_Witness ==
    \E c \in Chats : /\ CONV[c] # NoRow
                     /\ CONV[c].step = "awaiting_plan"
                     /\ CONV[c].email = "@"

\* C13: loading a seed is a merge that raises no error: once
\* load_vouchers_into_db has been called on a seed, every code of the seed
\* is a row of the inventory (and so a second load changes nothing).
C13_SeedMerged ==
    loaded.called => \A x \in loaded.seed : \E v \in vouchers : v.code = x.code

\* C14: no webhook step adds an unused voucher: every voucher stays in the
\* table under its plan, and its used flag never goes back from 1 to 0.
C14_VouchersOnlyGetUsed ==
    [][/\ Cardinality(vouchers') = Cardinality(vouchers)
       /\ \A v \in vouchers : \E w \in vouchers' :
             /\ w.code = v.code
             /\ w.plan = v.plan
             /\ w.used >= v.used]_vars

C14_Witness ==
    \E v \in vouchers : \E w \in vouchers : v.used = 1 /\ w.used = 0 /\ w.plan = v.plan

\* C15: every used voucher records the session it was issued to
\* (assigned_to) and the time of the claim (assigned_at).
C15_UsedVoucherIsAssigned ==
    \A v \in vouchers : v.used = 1 =>
        /\ {"assigned_to", "assigned_at"} \subseteq DOMAIN v
        /\ v.assigned_to # JNull
        /\ v.assigned_at # JNull

\* C16: the ledger holds one Order per session (chat_id is the key of
\* users): when a session in stage awaiting_plan picks a plan and Paystack
\* answers, its row becomes the new Order (the session's email, the plan
\* picked, the new customer and account), whatever row it held before, and
\* no step changes the row of a session other than the one that wrote.
C16_RedoReplacesOrder ==
    [][/\ \A c \in {d \in Chats : CONV[d] # NoRow /\ CONV[d].step = "awaiting_plan"} :
          \A text \in DOMAIN PLANS :
          \A customer \in CustomerResults \ {Raised} : \A dedicated \in DedicatedResults : \A ok \in BOOLEAN :
             (HandleUpdate(c, text, customer, dedicated, ok) /\ ~(Truthy(customer) /\ dedicated = Raised)) =>
                 /\ users'[c] = UserRow(CONV[c].first_name, CONV[c].last_name, CONV[c].email, text,
                                        customer, IF Truthy(customer) THEN dedicated ELSE JNull)
                 /\ \A d \in Chats \ {c} : users'[d] = users[d]
       /\ Cardinality({d \in Chats : users'[d] # users[d]}) <= 1]_vars

C16_Witness ==
    \E c \in replaced : users[c].email = "@" /\ users[c].plan = "Weekly" /\ users[c].customer_id = JNull

\* C19: every Order in the ledger has a configured plan and an email that
\* contains "@".
C19_OrdersAreWellFormed ==
    \A c \in Chats : users[c] # NoRow =>
        /\ users[c].plan \in DOMAIN PLANS
        /\ "@" \in Chars(users[c].email)

C19_Witness ==
    \E c \in Chats : users[c] # NoRow /\ c \notin replaced /\ users[c].email = "@" /\ users[c].plan = "Weekly"

\* C17: a verified event that names a plan outside the configured plans
\* never reaches the claim: it is answered "ignored" and no voucher is
\* claimed under its plan name.
C17_UnknownPlanIgnored ==
    /\ \A e \in BagToSet(claimLog) : e.plan \in DOMAIN PLANS
    /\ \A r \in Reqs : (req[r].plan # JNull /\ req[r].plan[2] \notin DOMAIN PLANS) =>
          /\ req[r].pc = "done"
          /\ req[r].resp.status = "ignored"

\* C18: a verified event that is no success event, or whose metadata lacks
\* a non-zero integer chat_id or a plan, is answered "ignored" and changes
\* no voucher and sends no notification.
C18_UnhandledEventIgnored ==
    [][\A r \in {q \in Reqs : req[q].pc = "idle"} : \A b \in ObjectInputs :
          LET success == b.event = "charge.success" \/ b.status = "success"
              lacking == \/ b.meta = "string"
                         \/ ~Truthy(ParseChatId(b.chat_id))
                         \/ ~Truthy(b.plan)
          IN  (WebhookPost(r, HmacSha512Hex(PAYSTACK_SECRET_KEY, b), b) /\ (~success \/ lacking)) =>
                  /\ req'[r].pc = "done"
                  /\ req'[r].resp = Response(200, "ignored", "", "")
                  /\ vouchers' = vouchers
                  /\ sent' = sent]_vars

\* C20: the row the claim selects is an unused voucher of the requested
\* plan, and when the "Payment confirmed" notification is sent its code is
\* already a used voucher of that plan in the committed inventory.
C20_CommitBeforeNotify ==
    [][\A r \in Reqs :
          /\ (req[r].pc = "select" /\ req'[r].pc = "update") =>
                \E v \in vouchers : /\ v.code = req'[r].code[2]
                                    /\ v.plan = req[r].plan[2]
                                    /\ v.used = 0
          /\ (req[r].pc = "send" /\ req'[r].pc = "done" /\ Truthy(req[r].code)) =>
                /\ \E v \in vouchers : /\ v.code = req[r].code[2]
                                       /\ v.plan = req[r].plan[2]
                                       /\ v.used = 1
                /\ \A m \in BagToSet(sent') : m.text[1] = "Payment confirmed" =>
                      \E v \in vouchers : v.code = m.text[3] /\ v.plan = m.text[2] /\ v.used = 1]_vars

C20_Witness ==
    \E m \in BagToSet(sent) : \E v \in vouchers :
        m.text = <<"Payment confirmed", v.plan, v.code>> /\ v.used = 1

====
